---- MODULE Spec2Model ----
(***************************************************************************)
(* A model of update.py, the self-update script of msx_grid: main(),       *)
(* update_via_zip() and their helpers, as one sequential process whose     *)
(* position is pc.  The file system is modelled as trees: functions from   *)
(* paths (sequences of path components) to file contents.  A directory     *)
(* exists exactly when some file lies beneath it.                          *)
(***************************************************************************)
EXTENDS Integers, Sequences, FiniteSets, TLC

VARIABLES
    os_sep,               \* the path separator str(Path) uses on this platform
    live,                 \* the live installation tree (the working directory)
    live0,                \* the live tree before main() started (never changes)
    archive,              \* what GITHUB_ZIP_URL serves: [root, files]
    pc,                   \* the position of the process
    backup_path,          \* main: backup_path (a path, or None)
    commit_info,          \* the result of the last get_latest_commit_info()
    temp_exists,          \* whether temp_dir exists on disk
    zip_present,          \* whether temp_dir/update.zip was written
    source_dir,           \* the extracted tree under extracted_dirs[0]
    preserve_backup,      \* update_via_zip: preserve_backup
    to_restore,           \* the entries of preserve_backup the restore loop has not reached
    cur_item,             \* the directory entry whose live copy was removed, not yet moved back
    requirements_changed, \* update_via_zip: requirements_changed
    visited,              \* the source files the merge loop has been through
    files_updated,        \* update_via_zip: files_updated
    copied,               \* the targets shutil.copy2 was called on by the merge loop
    ret,                  \* what update_via_zip returns
    exit_code,            \* the exit status of the process, once it has ended
    out,                  \* the messages printed so far
    fault,                \* the step a failure was injected at, if any
    interrupted,          \* whether a KeyboardInterrupt was raised
    events,               \* what the run has been through: the answer to the second
                          \* prompt, the steps and the completion of the restore loop
    live_once             \* the working directory after the restore loop's first pass,
                          \* when the loop is executed again

vars == <<os_sep, live, live0, archive, pc, backup_path, commit_info, temp_exists,
          zip_present, source_dir, preserve_backup, to_restore, cur_item,
          requirements_changed, visited, files_updated, copied, ret, exit_code,
          out, fault, interrupted, events, live_once>>

---------------------------------------------------------------------------
(* Bounds of the model *)

\* the largest number of files in the archive's tree
MaxSrcFiles == 3

---------------------------------------------------------------------------
(* Strings and paths *)

None == <<>>
NoTree == [p \in {} |-> ""]
NoItem == ""

\* str.startswith
StartsWith(s, prefix) ==
    /\ Len(prefix) <= Len(s)
    /\ SubSeq(s, 1, Len(prefix)) = prefix

\* Path(s): the components of a relative path written with '/'
PathOf(s) ==
    LET F[i \in 0..Len(s)] ==
            IF i = 0 THEN <<"">>
            ELSE LET prev == F[i - 1]
                     c == SubSeq(s, i, i)
                 IN IF c = "/" THEN Append(prev, "")
                    ELSE [prev EXCEPT ![Len(prev)] = @ \o c]
    IN F[Len(s)]

\* str(path): the components joined by the platform's separator
RECURSIVE StrPath(_, _)
StrPath(p, sep) ==
    IF Len(p) = 0 THEN "."
    ELSE IF Len(p) = 1 THEN p[1]
    ELSE p[1] \o sep \o StrPath(Tail(p), sep)

IsPrefix(a, b) == Len(a) <= Len(b) /\ SubSeq(b, 1, Len(a)) = a
IsProperPrefix(a, b) == Len(a) < Len(b) /\ SubSeq(b, 1, Len(a)) = a
Parent(p) == SubSeq(p, 1, Len(p) - 1)

---------------------------------------------------------------------------
(* Trees *)

Under(tree, dir) == {p \in DOMAIN tree : IsProperPrefix(dir, p)}
IsFile(tree, p) == p \in DOMAIN tree
IsDir(tree, p) == Under(tree, p) # {}
Exists(tree, p) == IsFile(tree, p) \/ IsDir(tree, p)

\* the tree without path p and everything beneath it
Without(tree, p) ==
    [q \in {r \in DOMAIN tree : ~IsPrefix(p, r)} |-> tree[q]]
\* the files of tree at or beneath p, by their paths
SubTree(tree, p) ==
    [q \in {r \in DOMAIN tree : IsPrefix(p, r)} |-> tree[q]]
\* the tree with file p holding content c
WriteFile(tree, p, c) == (p :> c) @@ tree

---------------------------------------------------------------------------
(* The program's fixed paths *)

\* backup_config / restore_config: config_path
Config == PathOf("config/config.yaml")
\* the creation time backup_config formats into the backup's name
Timestamp == "20260101_000000"
\* backup_config: backup_path
BackupFile == PathOf("config/config.yaml.backup." \o Timestamp)
\* update_via_zip: old_requirements, and new_requirements relative to source_dir
Requirements == PathOf("requirements.txt")

\* update_via_zip: preserve_items
preserve_items ==
    {"config/config.yaml", "logs", "__pycache__", ".git",
     "app.bin", "app.build", "app.dist", "app.onefile-build"}

\* Path(item) for every item of preserve_items
ItemPath == [item \in preserve_items |-> PathOf(item)]

\* what a file holds after a write to it failed part-way
Truncated == ""

---------------------------------------------------------------------------
(* The inputs: the installation before the run and the archive served *)

\* the files an installation may hold besides app.py
LiveOptional ==
    (PathOf("config/config.yaml") :> "a: 1")
    @@ (PathOf("logs/run.log") :> "old")
    @@ (PathOf("requirements.txt") :> "req1")

LiveTrees ==
    {(PathOf("app.py") :> "print(1)") @@ [p \in S |-> LiveOptional[p]] :
        S \in SUBSET DOMAIN LiveOptional}

\* the files the archive's tree may hold, each with the contents it may have
SourceContents ==
    (PathOf("app.py") :> {"print(2)"})
    @@ (PathOf("config/config.yaml") :> {"a: 2"})
    @@ (PathOf("logs/run.log") :> {"new"})
    @@ (PathOf(".gitignore") :> {"ign"})
    @@ (PathOf(".git/HEAD") :> {"ref"})
    @@ (PathOf("sub/.git/HEAD") :> {"ref"})
    @@ (PathOf("sub/mod.py") :> {"mod"})
    @@ (PathOf("requirements.txt") :> {"req1", "req2"})

SourceTrees ==
    UNION {[S -> UNION {SourceContents[p] : p \in S}] :
              S \in {T \in SUBSET DOMAIN SourceContents : Cardinality(T) <= MaxSrcFiles}}

WellFormedSource(t) == \A p \in DOMAIN t : t[p] \in SourceContents[p]

\* an archive holds one top-level directory with a tree, or no entry at all
Archives ==
    {[root |-> TRUE, files |-> t] : t \in {u \in SourceTrees : WellFormedSource(u)}}
    \cup {[root |-> FALSE, files |-> NoTree]}

---------------------------------------------------------------------------
(* The merge loop's helpers *)

FilesIn(tree, dir) == {p \in DOMAIN tree : Parent(p) = dir}
SubDirs(tree, dir) ==
    {p[Len(dir) + 1] : p \in {q \in DOMAIN tree : IsPrefix(dir, q) /\ Len(q) > Len(dir) + 1}}
AllDirs(tree) == UNION {{SubSeq(p, 1, k) : k \in 0..(Len(p) - 1)} : p \in DOMAIN tree}

\* a walk that forgets to prune
PruneNothing(dirs) == dirs

\* if '.git' in dirs: dirs.remove('.git')
PruneDirs(dirs) == dirs \ {".git"}

\* the files os.walk(source_dir) yields, by their paths relative to source_dir
RECURSIVE WalkFiles(_, _)
WalkFiles(tree, dir) ==
    FilesIn(tree, dir)
    \cup UNION {WalkFiles(tree, Append(dir, d)) : d \in PruneDirs(SubDirs(tree, dir))}

\* os.walk is top-down: a directory's files come before those of its
\* subdirectories, and a subtree is finished before the walk leaves it.  The
\* order within one directory listing is the file system's.
CanVisit(tree, f, done) ==
    LET pending == WalkFiles(tree, <<>>) \ done IN
    /\ f \in pending
    /\ \A g \in pending : ~IsProperPrefix(Parent(g), Parent(f))
    /\ \A d \in AllDirs(tree) :
          (Under(tree, d) \cap done # {} /\ Under(tree, d) \cap pending # {})
              => IsProperPrefix(d, f)

\* for preserve in preserve_items: if str(target_file).startswith(preserve)
Skip(target, sep) ==
    \E preserve \in preserve_items : StartsWith(StrPath(target, sep), preserve)

\* target_file.parent.mkdir(parents=True, exist_ok=True) raises when a
\* component of the parent is a file
MkdirFails(tree, dir) == \E k \in 1..Len(dir) : IsFile(tree, SubSeq(dir, 1, k))

\* shutil.copy2(src, dst) writes to dst/<name> when dst is a directory
CopyDest(tree, target) ==
    IF IsDir(tree, target) THEN Append(target, target[Len(target)]) ELSE target

\* open(path, 'r', encoding='utf-8').read(): text mode reads every line ending
\* ('\r\n', '\r', '\n') as '\n'
RECURSIVE ReadText(_)
ReadText(bytes) ==
    IF Len(bytes) = 0 THEN ""
    ELSE LET c == SubSeq(bytes, 1, 1)
             rest == SubSeq(bytes, 2, Len(bytes))
         IN IF c = "\r"
            THEN IF Len(rest) > 0 /\ SubSeq(rest, 1, 1) = "\n"
                 THEN "\n" \o ReadText(SubSeq(rest, 2, Len(rest)))
                 ELSE "\n" \o ReadText(rest)
            ELSE c \o ReadText(rest)

\* check_requirements_changed(old_requirements_path, new_requirements_path)
check_requirements_changed(old_tree, new_tree) ==
    IF ~IsFile(old_tree, Requirements) \/ ~IsFile(new_tree, Requirements)
    THEN TRUE
    ELSE ReadText(old_tree[Requirements]) # ReadText(new_tree[Requirements])

---------------------------------------------------------------------------
(* The state after the interpreter has loaded the script *)

Init ==
    /\ os_sep \in {"/", "\\"}
    /\ live \in LiveTrees
    /\ live0 = live
    /\ archive \in Archives
    /\ pc = "m_backup"
    /\ backup_path = None
    /\ commit_info = "unset"
    /\ temp_exists = FALSE
    /\ zip_present = FALSE
    /\ source_dir = NoTree
    /\ preserve_backup = NoTree
    /\ to_restore = {}
    /\ cur_item = NoItem
    /\ requirements_changed = FALSE
    /\ visited = {}
    /\ files_updated = 0
    /\ copied = {}
    /\ ret = "unset"
    /\ exit_code = 0
    /\ out = {}
    /\ fault = "none"
    /\ interrupted = FALSE
    /\ events = {}
    /\ live_once = NoTree

Say(msg) == out' = out \cup {msg}

\* a handler at the bottom of the script that ends the process with status 0
sys_exit_zero(status) == exit_code' = 0

\* sys.exit(status)
sys_exit(status) == exit_code' = status

\* the variables of update_via_zip's frame and of its workspace
zipVars == <<temp_exists, zip_present, source_dir, preserve_backup, to_restore,
             cur_item, requirements_changed, visited, files_updated, copied, ret>>
\* what no step of a run changes
envVars == <<os_sep, live0, archive, live_once>>

---------------------------------------------------------------------------
(* main(), up to the call of update_via_zip() *)

\* shutil.copy2(config_path, backup_path), with the config file removed
MoveConfigTo(tree, path) == Without(WriteFile(tree, path, tree[Config]), Config)

\* a backup_config that writes no file
CopyConfigNowhere(tree, path) == tree

\* shutil.copy2(config_path, backup_path)
CopyConfigTo(tree, path) == WriteFile(tree, path, tree[Config])

\* backup_config(): copy the config file to a timestamped sibling, if it exists
backup_config ==
    /\ pc = "m_backup"
    /\ IF Exists(live, Config)
       THEN /\ live' = CopyConfigTo(live, BackupFile)
            /\ backup_path' = BackupFile
            /\ Say("config_backed_up")
       ELSE /\ backup_path' = None
            /\ UNCHANGED <<live, out>>
    /\ pc' = "m_query"
    /\ UNCHANGED <<envVars, events, zipVars, commit_info, exit_code, fault, interrupted>>

\* get_latest_commit_info(): a revision, or None on any error
get_latest_commit_info(at, next) ==
    /\ pc = at
    /\ commit_info' \in {"revision", "absent"}
    /\ pc' = next
    /\ UNCHANGED <<envVars, events, zipVars, live, backup_path, exit_code, out, fault,
                   interrupted>>

MainQuery == get_latest_commit_info("m_query", "m_prompt")

\* response = input(...); anything but 'y' cancels
Confirm ==
    /\ pc = "m_prompt"
    /\ \E response \in {"y", "n"} :
          IF response # "y"
          THEN /\ Say("cancelled")
               /\ pc' = "done"
          ELSE /\ pc' = "u_query"
               /\ UNCHANGED out
    /\ commit_info' = "unset"
    /\ UNCHANGED <<envVars, events, zipVars, live, backup_path, exit_code, fault, interrupted>>

---------------------------------------------------------------------------
(* update_via_zip() *)

mainVars == <<backup_path, exit_code>>

UpdateQuery == get_latest_commit_info("u_query", "u_mkdtemp")

\* temp_dir = Path(tempfile.mkdtemp(prefix="msx_grid_update_"))
MkDtemp ==
    /\ pc = "u_mkdtemp"
    /\ temp_exists' = TRUE
    /\ commit_info' = "unset"
    /\ pc' = "u_zip_path"
    /\ UNCHANGED <<envVars, events, mainVars, live, zip_present, source_dir, preserve_backup,
                   to_restore, cur_item, requirements_changed, visited, files_updated,
                   copied, ret, out, fault, interrupted>>

\* zip_path = temp_dir / "update.zip", then the try statement is entered
EnterTry ==
    /\ pc = "u_zip_path"
    /\ pc' = "u_download"
    /\ UNCHANGED <<envVars, events, mainVars, zipVars, live, commit_info, out, fault, interrupted>>

\* if not download_file(GITHUB_ZIP_URL, zip_path): return False
\* download_file catches every exception and returns False
Download ==
    /\ pc = "u_download"
    /\ \E downloaded \in BOOLEAN :
          IF downloaded
          THEN /\ zip_present' = TRUE
               /\ pc' = "u_extract"
               /\ UNCHANGED <<ret, out, fault>>
          ELSE /\ Say("download_failed")
               /\ ret' = "bare_false"
               /\ fault' = "download"
               /\ pc' = "u_finally"
               /\ UNCHANGED zip_present
    /\ UNCHANGED <<envVars, events, mainVars, live, commit_info, temp_exists, source_dir,
                   preserve_backup, to_restore, cur_item, requirements_changed, visited,
                   files_updated, copied, interrupted>>

\* an extraction whose emptiness is never noticed
ExtractedNeverEmpty(arch) == FALSE

\* extracted_dirs = list(extract_dir.iterdir()); if not extracted_dirs
ExtractedEmpty(arch) == ~arch.root

\* extract_dir.mkdir(); extractall; the check of extracted_dirs; source_dir
Extract ==
    /\ pc = "u_extract"
    /\ \E outcome \in {"ok", "error"} :
          IF outcome = "error"
          THEN /\ fault' = "extract"
               /\ pc' = "u_except"
               /\ UNCHANGED <<source_dir, ret, out>>
          ELSE IF ExtractedEmpty(archive)
          THEN /\ Say("no_files_after_extract")
               /\ ret' = "bare_false"
               /\ pc' = "u_finally"
               /\ UNCHANGED <<source_dir, fault>>
          ELSE /\ source_dir' = archive.files
               /\ pc' = "u_snapshot"
               /\ UNCHANGED <<ret, out, fault>>
    /\ UNCHANGED <<envVars, events, mainVars, live, commit_info, temp_exists, zip_present,
                   preserve_backup, to_restore, cur_item, requirements_changed, visited,
                   files_updated, copied, interrupted>>

\* a snapshot whose directory entries are created empty instead of copied
SnapshotShallow(tree) ==
    [item \in {i \in preserve_items : Exists(tree, ItemPath[i])} |->
        IF IsFile(tree, ItemPath[item])
        THEN [kind |-> "bytes", data |-> tree[ItemPath[item]], tree |-> NoTree,
              staged |-> FALSE]
        ELSE [kind |-> "dir", data |-> "", tree |-> NoTree, staged |-> TRUE]]

\* for item in preserve_items: read the file's bytes, or copytree the directory
\* to temp_dir/backup_<item>; staged says that the copy is in temp_dir
Snapshot(tree) ==
    [item \in {i \in preserve_items : Exists(tree, ItemPath[i])} |->
        IF IsFile(tree, ItemPath[item])
        THEN [kind |-> "bytes", data |-> tree[ItemPath[item]], tree |-> NoTree,
              staged |-> FALSE]
        ELSE [kind |-> "dir", data |-> "", tree |-> SubTree(tree, ItemPath[item]),
              staged |-> TRUE]]

TakeSnapshot ==
    /\ pc = "u_snapshot"
    /\ \E outcome \in {"ok", "error"} :
          IF outcome = "ok"
          THEN /\ preserve_backup' = Snapshot(live)
               /\ pc' = "u_reqcheck"
               /\ UNCHANGED fault
          ELSE /\ fault' = "snapshot"
               /\ pc' = "u_except"
               /\ UNCHANGED preserve_backup
    /\ UNCHANGED <<envVars, events, mainVars, live, commit_info, temp_exists, zip_present,
                   source_dir, to_restore, cur_item, requirements_changed, visited,
                   files_updated, copied, ret, out, interrupted>>

\* a check that reports a change whatever the two manifests hold
RequirementsFlagAlways(old_tree, new_tree) == TRUE

\* requirements_changed = False; if both exist: check_requirements_changed(...)
RequirementsFlag(old_tree, new_tree) ==
    IF IsFile(old_tree, Requirements) /\ IsFile(new_tree, Requirements)
    THEN check_requirements_changed(old_tree, new_tree)
    ELSE FALSE

CheckRequirements ==
    /\ pc = "u_reqcheck"
    /\ requirements_changed' = RequirementsFlag(live, source_dir)
    /\ pc' = "u_merge"
    /\ UNCHANGED <<envVars, events, mainVars, live, commit_info, temp_exists, zip_present,
                   source_dir, preserve_backup, to_restore, cur_item, visited,
                   files_updated, copied, ret, out, fault, interrupted>>

\* one turn of the inner loop of "for root, dirs, files in os.walk(source_dir)"
MergeFile ==
    /\ pc = "u_merge"
    /\ \E f \in DOMAIN source_dir :
          /\ CanVisit(source_dir, f, visited)
          /\ visited' = visited \cup {f}
          /\ IF Skip(f, os_sep)
             THEN /\ pc' = "u_merge"
                  /\ UNCHANGED <<live, copied, files_updated, fault>>
             ELSE IF MkdirFails(live, Parent(f))
             THEN /\ fault' = "copy"
                  /\ pc' = "u_except"
                  /\ UNCHANGED <<live, copied, files_updated>>
             ELSE \E outcome \in {"ok", "error"} :
                  /\ copied' = copied \cup {CopyDest(live, f)}
                  /\ IF outcome = "ok"
                     THEN /\ live' = WriteFile(live, CopyDest(live, f), source_dir[f])
                          /\ files_updated' = files_updated + 1
                          /\ pc' = "u_merge"
                          /\ UNCHANGED fault
                     ELSE /\ live' \in {live, WriteFile(live, CopyDest(live, f), Truncated)}
                          /\ fault' = "copy"
                          /\ pc' = "u_except"
                          /\ UNCHANGED files_updated
    /\ UNCHANGED <<envVars, events, mainVars, commit_info, temp_exists, zip_present, source_dir,
                   preserve_backup, to_restore, cur_item, requirements_changed, ret, out,
                   interrupted>>

\* the walk is exhausted: print_success(f"已更新 {files_updated} 个文件")
MergeDone ==
    /\ pc = "u_merge"
    /\ WalkFiles(source_dir, <<>>) \subseteq visited
    /\ Say("files_updated")
    /\ to_restore' = DOMAIN preserve_backup
    /\ pc' = "u_restore"
    /\ UNCHANGED <<envVars, events, mainVars, live, commit_info, temp_exists, zip_present,
                   source_dir, preserve_backup, cur_item, requirements_changed, visited,
                   files_updated, copied, ret, fault, interrupted>>

\* restore loop, a file entry: item_path.parent.mkdir(...); item_path.write_bytes(backup)
RestoreFile ==
    /\ pc = "u_restore"
    /\ \E item \in to_restore :
          /\ preserve_backup[item].kind = "bytes"
          /\ \E outcome \in {"ok", "error"} :
                IF outcome = "ok" /\ ~MkdirFails(live, Parent(ItemPath[item]))
                THEN /\ live' = WriteFile(live, ItemPath[item], preserve_backup[item].data)
                     /\ to_restore' = to_restore \ {item}
                     /\ pc' = "u_restore"
                     /\ UNCHANGED fault
                ELSE /\ live' \in IF MkdirFails(live, Parent(ItemPath[item]))
                                   THEN {live}
                                   ELSE {live, WriteFile(live, ItemPath[item], Truncated)}
                     /\ fault' = "restore"
                     /\ pc' = "u_except"
                     /\ UNCHANGED to_restore
    /\ events' = events \cup {"restore_step"}
    /\ UNCHANGED <<envVars, mainVars, commit_info, temp_exists, zip_present, source_dir,
                   preserve_backup, cur_item, requirements_changed, visited,
                   files_updated, copied, ret, out, interrupted>>

\* restore loop, a directory entry, first half: if item_path.exists(): unlink or rmtree
RestoreRemove ==
    /\ pc = "u_restore"
    /\ \E item \in to_restore :
          /\ preserve_backup[item].kind = "dir"
          /\ \E outcome \in {"ok", "error"} :
                IF outcome = "ok" \/ ~Exists(live, ItemPath[item])
                THEN /\ live' = Without(live, ItemPath[item])
                     /\ cur_item' = item
                     /\ pc' = "u_move"
                     /\ UNCHANGED fault
                ELSE /\ live' \in {live, Without(live, ItemPath[item])}
                     /\ fault' = "restore"
                     /\ pc' = "u_except"
                     /\ UNCHANGED cur_item
    /\ events' = events \cup {"restore_step"}
    /\ UNCHANGED <<envVars, mainVars, commit_info, temp_exists, zip_present, source_dir,
                   preserve_backup, to_restore, requirements_changed, visited,
                   files_updated, copied, ret, out, interrupted>>

\* restore loop, a directory entry, second half: shutil.move(str(backup), str(item_path))
\* the staged copy leaves temp_dir; a copy that is no longer there cannot be moved
RestoreMove ==
    /\ pc = "u_move"
    /\ \E outcome \in {"ok", "error"} :
          IF ~preserve_backup[cur_item].staged
          THEN /\ fault' = "move_missing"
               /\ pc' = "u_except"
               /\ UNCHANGED <<live, preserve_backup, to_restore, cur_item>>
          ELSE IF outcome = "ok"
          THEN /\ live' = preserve_backup[cur_item].tree @@ live
               /\ preserve_backup' = [preserve_backup EXCEPT ![cur_item].staged = FALSE]
               /\ to_restore' = to_restore \ {cur_item}
               /\ cur_item' = NoItem
               /\ pc' = "u_restore"
               /\ UNCHANGED fault
          ELSE /\ fault' = "restore"
               /\ pc' = "u_except"
               /\ UNCHANGED <<live, preserve_backup, to_restore, cur_item>>
    /\ UNCHANGED <<envVars, events, mainVars, commit_info, temp_exists, zip_present,
                   source_dir, requirements_changed, visited, files_updated, copied,
                   ret, out, interrupted>>

\* return True, requirements_changed
ReturnOk ==
    /\ pc = "u_restore"
    /\ to_restore = {}
    /\ ret' = "ok_tuple"
    /\ events' = events \cup {"restore_done"}
    /\ pc' = "u_finally"
    /\ UNCHANGED <<envVars, mainVars, live, commit_info, temp_exists, zip_present,
                   source_dir, preserve_backup, to_restore, cur_item,
                   requirements_changed, visited, files_updated, copied, out, fault,
                   interrupted>>

\* except Exception as e: print_error(...); return False, False
ExceptHandler ==
    /\ pc = "u_except"
    /\ Say("zip_error")
    /\ ret' = "fail_tuple"
    /\ pc' = "u_finally"
    /\ UNCHANGED <<envVars, events, mainVars, live, commit_info, temp_exists, zip_present,
                   source_dir, preserve_backup, to_restore, cur_item,
                   requirements_changed, visited, files_updated, copied, fault,
                   interrupted>>

\* finally: try: shutil.rmtree(temp_dir) except Exception: pass
\* then the return value is delivered, or the pending KeyboardInterrupt goes on
\* to the handler at the bottom of the script
Finally ==
    /\ pc = "u_finally"
    /\ \E outcome \in {"removed", "error"} :
          IF outcome = "removed"
          THEN /\ temp_exists' = FALSE
               /\ zip_present' = FALSE
               /\ source_dir' = NoTree
          ELSE UNCHANGED <<temp_exists, zip_present, source_dir>>
    /\ IF ret = "interrupt"
       THEN /\ Say("interrupted")
            /\ sys_exit(1)
            /\ pc' = "done"
       ELSE /\ pc' = "m_unpack"
            /\ UNCHANGED <<out, exit_code>>
    /\ UNCHANGED <<envVars, events, live, backup_path, commit_info, preserve_backup, to_restore,
                   cur_item, requirements_changed, visited, files_updated, copied, ret,
                   fault, interrupted>>

\* the positions inside the try statement of update_via_zip
TryPcs == {"u_download", "u_extract", "u_snapshot", "u_reqcheck", "u_merge",
           "u_restore", "u_move", "u_except"}

\* KeyboardInterrupt: inside the try statement the finally clause still runs;
\* anywhere else the interrupt goes straight to the handler at the bottom
KeyboardInterrupt ==
    /\ pc # "done"
    /\ interrupted' = TRUE
    /\ IF pc \in TryPcs
       THEN /\ ret' = "interrupt"
            /\ pc' = "u_finally"
            /\ UNCHANGED <<out, exit_code>>
       ELSE /\ Say("interrupted")
            /\ sys_exit(1)
            /\ pc' = "done"
            /\ UNCHANGED ret
    /\ UNCHANGED <<envVars, events, live, backup_path, commit_info, temp_exists, zip_present,
                   source_dir, preserve_backup, to_restore, cur_item,
                   requirements_changed, visited, files_updated, copied, fault>>

---------------------------------------------------------------------------
(* main(), after update_via_zip() has returned *)

\* success, requirements_changed = update_via_zip()
\* a bare False cannot be unpacked: the TypeError leaves main()
Unpack ==
    /\ pc = "m_unpack"
    /\ IF ret = "bare_false"
       THEN /\ Say("top_level_error")
            /\ sys_exit(1)
            /\ pc' = "done"
       ELSE /\ pc' = IF ret = "ok_tuple"
                     THEN (IF requirements_changed THEN "m_deps_prompt" ELSE "m_success")
                     ELSE "m_fail"
            /\ UNCHANGED <<out, exit_code>>
    /\ UNCHANGED <<envVars, events, zipVars, live, backup_path, commit_info, fault, interrupted>>

\* if requirements_changed: second prompt
DepsPrompt ==
    /\ pc = "m_deps_prompt"
    /\ Say("requirements_changed")
    /\ \E response \in {"y", "n"} :
          IF response = "y"
          THEN /\ events' = events \cup {"reinstall_confirmed"}
               /\ pc' = "m_deps"
          ELSE /\ pc' = "m_success"
               /\ UNCHANGED events
    /\ UNCHANGED <<envVars, zipVars, live, backup_path, commit_info, exit_code, fault,
                   interrupted>>

\* run_command(cmd): subprocess.run(..., check=True) raises CalledProcessError
\* on a non-zero status; run_command catches it and returns the status
run_command(pip) ==
    [raised |-> FALSE, failed |-> pip = "failed"]

\* update_dependencies(): the success message is printed unless run_command raises
update_dependencies ==
    /\ pc = "m_deps"
    /\ IF ~Exists(live, Requirements)
       THEN /\ Say("requirements_missing")
            /\ UNCHANGED fault
       ELSE \E pip \in {"ok", "failed"} :
            /\ IF run_command(pip).raised
               THEN Say("dependencies_failed")
               ELSE Say("dependencies_updated")
            /\ fault' = IF pip = "failed" THEN "pip" ELSE fault
    /\ pc' = "m_success"
    /\ UNCHANGED <<envVars, events, zipVars, live, backup_path, commit_info, exit_code,
                   interrupted>>

\* print_success("更新完成！") and the advice
ReportSuccess ==
    /\ pc = "m_success"
    /\ Say("update_complete")
    /\ pc' = "done"
    /\ UNCHANGED <<envVars, events, zipVars, live, backup_path, commit_info, exit_code, fault,
                   interrupted>>

\* a restore_config that copies nothing
restore_config_noop(tree, path) == tree

\* restore_config(backup_path): copy the backup over the config file
restore_config(tree, path) ==
    IF path # None /\ Exists(tree, path)
    THEN WriteFile(tree, Config, tree[path])
    ELSE tree

\* else: if backup_path: restore_config(backup_path); print_error(...)
ReportFailure ==
    /\ pc = "m_fail"
    /\ live' = IF backup_path # None THEN restore_config(live, backup_path) ELSE live
    /\ out' = out \cup {"update_failed"}
                  \cup (IF backup_path # None /\ Exists(live, backup_path)
                        THEN {"config_restored"} ELSE {})
    /\ pc' = "done"
    /\ UNCHANGED <<envVars, events, zipVars, backup_path, commit_info, exit_code, fault,
                   interrupted>>

Next ==
    \/ backup_config
    \/ MainQuery
    \/ Confirm
    \/ UpdateQuery
    \/ MkDtemp
    \/ EnterTry
    \/ Download
    \/ Extract
    \/ TakeSnapshot
    \/ CheckRequirements
    \/ MergeFile
    \/ MergeDone
    \/ RestoreFile
    \/ RestoreRemove
    \/ RestoreMove
    \/ ReturnOk
    \/ ExceptHandler
    \/ Finally
    \/ KeyboardInterrupt
    \/ Unpack
    \/ DepsPrompt
    \/ update_dependencies
    \/ ReportSuccess
    \/ ReportFailure

Spec == Init /\ [][Next]_vars

\* the restore loop (for item, backup in preserve_backup.items(): ...) executed
\* a second time on the same preserve_backup, after its first pass has finished
RestoreAgain ==
    /\ pc = "u_restore"
    /\ to_restore = {}
    /\ DOMAIN preserve_backup # {}
    /\ "restore_again" \notin events
    /\ to_restore' = DOMAIN preserve_backup
    /\ events' = events \cup {"restore_again"}
    /\ live_once' = live
    /\ UNCHANGED <<os_sep, live0, archive, mainVars, live, pc, commit_info, temp_exists,
                   zip_present, source_dir, preserve_backup, cur_item,
                   requirements_changed, visited, files_updated, copied, ret, out,
                   fault, interrupted>>

SpecRestoreTwice == Init /\ [][Next \/ RestoreAgain]_vars

---------------------------------------------------------------------------
(* Properties *)

Logs == PathOf("logs")
\* a preserved item, or a path beneath a preserved directory, by path components
Preserved(p) == \E item \in preserve_items : IsPrefix(ItemPath[item], p)
\* a file inside a .git directory, at any depth
InGitDir(p) == \E k \in 1..(Len(p) - 1) : p[k] = ".git"
\* the steps between backup_config() and the completion of the merge
MergeFaults == {"download", "extract", "snapshot", "copy", "restore"}
Ended == pc = "done"

\* C1: once update_via_zip has succeeded, every preserved item that existed
\* before the run holds exactly its content from before the run, whatever the
\* source tree holds at or under the item's path.
C1_PreservationRoundTrip ==
    ret = "ok_tuple" =>
        \A item \in preserve_items :
            Exists(live0, ItemPath[item]) =>
                SubTree(live, ItemPath[item]) = SubTree(live0, ItemPath[item])

\* the end-to-end scenario: config and a log exist, the archive holds files at
\* both paths and a new app.py, and the run has ended in success
C1_Witness ==
    /\ Ended /\ ret = "ok_tuple"
    /\ IsFile(live0, Config) /\ IsDir(live0, Logs)
    /\ Config \in DOMAIN archive.files
    /\ PathOf("logs/run.log") \in DOMAIN archive.files
    /\ live[PathOf("app.py")] = "print(2)"
    /\ live[Config] = "a: 1"

C3_FailureReachesFailureBranch ==
    (Ended /\ ~interrupted /\ ret \in {"bare_false", "fail_tuple"}) =>
        /\ "update_failed" \in out
        /\ (backup_path # None => "config_restored" \in out)

\* C4: when download_file returned False, the process ends with a non-zero
\* exit status and the config file as it was before the run.
C4_DownloadFailure ==
    (Ended /\ fault = "download") =>
        /\ exit_code = 1
        /\ SubTree(live, Config) = SubTree(live0, Config)

\* a run with a config file whose download failed
C4_Witness ==
    /\ Ended /\ fault = "download" /\ ~interrupted
    /\ IsFile(live0, Config)
    /\ exit_code = 1

\* C5: when the process has ended, no temporary workspace remains.
C5_WorkspaceRemoved == Ended => ~temp_exists

\* C6 as stated: after any answer but 'y' the file system is as it was before
\* main() started.
C6_DeclineNoSideEffects ==
    (Ended /\ "cancelled" \in out) => (live = live0 /\ ~temp_exists)

\* C6 amended: after any answer but 'y' no temporary workspace was created and
\* the live tree is as it was before main() started, except for the timestamped
\* backup that backup_config made of an existing config file.
C6_DeclineLeavesOnlyBackup ==
    (Ended /\ "cancelled" \in out) =>
        /\ ~temp_exists
        /\ Without(live, BackupFile) = live0
        /\ IsFile(live, BackupFile) <=> IsFile(live0, Config)
        /\ IsFile(live, BackupFile) => live[BackupFile] = live0[Config]

\* a declined run that left the backup of the config file behind
C6_Witness ==
    /\ Ended /\ "cancelled" \in out
    /\ IsFile(live, BackupFile)
    /\ live # live0

\* C7: no file copy of the merge loop has a target that is a preserved item or
\* lies beneath a preserved directory.
C7_MergeNeverWritesPreserved == \A t \in copied : ~Preserved(t)

\* C8: after a successful merge every source file outside .git directories that
\* is not preserved (by path components) is in the live tree with the source's
\* content, and files_updated counts exactly these files.
C8_MergeComplete ==
    (pc = "u_finally" /\ ret = "ok_tuple") =>
        LET due == {f \in DOMAIN source_dir : ~InGitDir(f) /\ ~Preserved(f)} IN
        /\ \A f \in due : IsFile(live, f) /\ live[f] = source_dir[f]
        /\ files_updated = Cardinality(due)

\* C9: the merge loop never comes to a file inside a .git directory of the
\* source tree, at any depth, and never copies one.
C9_GitNeverCopied == \A t \in copied \cup visited : ~InGitDir(t)

\* a finished merge of an archive with a .git directory at the top and one
\* further down, beside a file that was copied
C9_Witness ==
    /\ Ended /\ ret = "ok_tuple"
    /\ PathOf(".git/HEAD") \in DOMAIN archive.files
    /\ PathOf("sub/.git/HEAD") \in DOMAIN archive.files
    /\ copied # {}

\* C10: with an archive of zero entries the merge is never entered, no "files
\* updated" or success message is printed, and a confirmed run that met no
\* other failure ends with the explicit error and a non-zero exit status.
C10_EmptyArchiveFails ==
    ~archive.root =>
        /\ pc \notin {"u_snapshot", "u_reqcheck", "u_merge", "u_restore", "u_move",
                      "m_deps_prompt", "m_deps", "m_success"}
        /\ ret # "ok_tuple"
        /\ visited = {}
        /\ "files_updated" \notin out
        /\ "update_complete" \notin out
        /\ (Ended /\ "cancelled" \notin out /\ fault = "none" /\ ~interrupted) =>
               ("no_files_after_extract" \in out /\ exit_code = 1)

\* a run that extracted an archive of zero entries and has ended
C10_Witness ==
    /\ Ended /\ ~archive.root /\ ~interrupted
    /\ "no_files_after_extract" \in out
    /\ exit_code = 1

---------------------------------------------------------------------------
(* check_requirements_changed on its own: every pair of manifests *)

MaxReqLen == 2

\* the bytes a manifest is made of: a letter and the two line-ending bytes
ReqAlphabet == {"a", "\r", "\n"}

RECURSIVE ReqStrings(_)
ReqStrings(n) ==
    IF n = 0 THEN {""}
    ELSE LET shorter == ReqStrings(n - 1)
         IN shorter \cup {s \o c : s \in shorter, c \in ReqAlphabet}

\* a directory without requirements.txt, or with one of the contents above
ReqTrees == {NoTree} \cup {(Requirements :> s) : s \in ReqStrings(MaxReqLen)}

InitCheckRequirements ==
    /\ os_sep = "/"
    /\ live \in ReqTrees
    /\ live0 = live
    /\ archive = [root |-> FALSE, files |-> NoTree]
    /\ source_dir \in ReqTrees
    /\ pc = "crc_call"
    /\ backup_path = None
    /\ commit_info = "unset"
    /\ temp_exists = TRUE
    /\ zip_present = FALSE
    /\ preserve_backup = NoTree
    /\ to_restore = {}
    /\ cur_item = NoItem
    /\ requirements_changed = FALSE
    /\ visited = {}
    /\ files_updated = 0
    /\ copied = {}
    /\ ret = "unset"
    /\ exit_code = 0
    /\ out = {}
    /\ fault = "none"
    /\ interrupted = FALSE
    /\ events = {}
    /\ live_once = NoTree

\* one call of check_requirements_changed(old, new)
CallCheckRequirements ==
    /\ pc = "crc_call"
    /\ requirements_changed' = check_requirements_changed(live, source_dir)
    /\ pc' = "crc_return"
    /\ UNCHANGED <<envVars, events, mainVars, live, commit_info, temp_exists, zip_present,
                   source_dir, preserve_backup, to_restore, cur_item, visited,
                   files_updated, copied, ret, out, fault, interrupted>>

SpecCheckRequirements == InitCheckRequirements /\ [][CallCheckRequirements]_vars

\* C11: check_requirements_changed returns true when either manifest is missing,
\* true when both exist and their bytes differ in any position, and false when
\* both exist and are byte-for-byte identical.
C11_ByteForByte ==
    pc = "crc_return" =>
        requirements_changed =
            (\/ ~IsFile(live, Requirements)
             \/ ~IsFile(source_dir, Requirements)
             \/ live[Requirements] # source_dir[Requirements])

---------------------------------------------------------------------------
(* Properties of the dependency step, the exit status and the restore loop *)

\* update_dependencies() was called
ReinstallRan ==
    \/ pc = "m_deps"
    \/ out \cap {"requirements_missing", "dependencies_updated", "dependencies_failed"} # {}

\* update_via_zip has returned to main()
Returned == pc \in {"m_unpack", "m_deps_prompt", "m_deps", "m_success", "m_fail", "done"}

\* C12: update_dependencies runs only in a run whose merge succeeded, whose
\* manifests were found changed and whose operator answered 'y' to the second
\* prompt; with identical old and new requirements.txt the second prompt is
\* not issued and no reinstall runs.
C12_ReinstallGuarded ==
    /\ ReinstallRan =>
          /\ ret = "ok_tuple"
          /\ requirements_changed
          /\ "reinstall_confirmed" \in events
    /\ (/\ IsFile(live0, Requirements)
        /\ IsFile(archive.files, Requirements)
        /\ live0[Requirements] = archive.files[Requirements]) =>
          /\ pc # "m_deps_prompt"
          /\ "requirements_changed" \notin out
          /\ ~ReinstallRan

\* a run that reinstalled the dependencies after a changed manifest and a 'y'
C12_Witness ==
    /\ Ended /\ ~interrupted /\ fault = "none"
    /\ "dependencies_updated" \in out
    /\ "reinstall_confirmed" \in events
    /\ live0[Requirements] # archive.files[Requirements]

\* C13: the exit status is non-zero exactly when a KeyboardInterrupt or an
\* exception left main(); a declined run and a run that went through main()'s
\* failure branch end with status zero.
C13_ExitStatus ==
    Ended =>
        /\ exit_code # 0 <=> (interrupted \/ "top_level_error" \in out)
        /\ ("cancelled" \in out /\ ~interrupted) => exit_code = 0
        /\ ("update_failed" \in out /\ ~interrupted) => exit_code = 0

\* a run whose merge failed by an exception and that was reported by the
\* failure branch
C13_Witness ==
    /\ Ended /\ ~interrupted
    /\ ret = "fail_tuple"
    /\ "update_failed" \in out
    /\ exit_code = 0

\* a merge write, or a step of the restore loop, has been made
DestructiveStepTaken == copied # {} \/ "restore_step" \in events

\* C15 as stated: whenever a destructive step has been taken, the backup file
\* of the configuration exists.
C15_BackupOrNoDestructiveStep == DestructiveStepTaken => IsFile(live, BackupFile)

\* C15 amended: whenever a destructive step has been taken, either the backup
\* file exists and holds the configuration of before the run, or there was no
\* configuration file before the run.
C15_BackupOfExistingConfig ==
    DestructiveStepTaken =>
        \/ ~IsFile(live0, Config)
        \/ (IsFile(live, BackupFile) /\ live[BackupFile] = live0[Config])

\* files were merged while the backup of an existing configuration was in place
C15_Witness ==
    /\ copied # {}
    /\ IsFile(live0, Config)
    /\ IsFile(live, BackupFile)

\* C16: when a copy of the merge loop raised after the snapshot was taken, the
\* restore loop has been executed by the time update_via_zip returns.
C16_RestoreAfterAbortedMerge ==
    (Returned /\ fault = "copy" /\ DOMAIN preserve_backup # {}) =>
        "restore_step" \in events

\* C17: the restore loop executed a second time on the same preserve_backup
\* raises no error and leaves the working directory as its first pass left it.
C17_RestoreIdempotent ==
    "restore_again" \in events =>
        /\ fault # "move_missing"
        /\ (ret = "ok_tuple" /\ fault = "none") => live = live_once

\* C18: when pip exits with a non-zero status, update_dependencies prints the
\* failure and not the success message, and restore_config is not called.
C18_PipFailureReported ==
    fault = "pip" =>
        /\ "dependencies_failed" \in out
        /\ "dependencies_updated" \notin out
        /\ "config_restored" \notin out

\* C19: the flag a successful update_via_zip returns is what
\* check_requirements_changed says of the live requirements.txt of before the
\* merge and the requirements.txt of the source tree, also when one is missing.
C19_FlagIsCheck ==
    ret = "ok_tuple" =>
        requirements_changed = check_requirements_changed(live0, archive.files)

\* C20: after a failure of a copy or of a step of the restore loop, every
\* preserved directory of before the run is in place with its content of before
\* the run when the run has ended and the workspace is removed.
C20_PreservedDirsSurvive ==
    (Ended /\ ~interrupted /\ ~temp_exists /\ fault \in {"copy", "restore"}) =>
        \A item \in preserve_items :
            IsDir(live0, ItemPath[item]) =>
                SubTree(live, ItemPath[item]) = SubTree(live0, ItemPath[item])

====
